---- MODULE Spec2Model ----
(***************************************************************************)
(* A model of python/paddle/autograd/functional.py (jacobian and its two   *)
(* helpers) and of the predictor-config generator of                       *)
(* test_trt_convert_leaky_relu.py.                                         *)
(*                                                                         *)
(* Python values are tagged records: py = "None", "int", "Tensor" (with a  *)
(* shape and row-major data) or "list" (a list or tuple, with its items).  *)
(* Python indexes from 0; the sequences here index from 1.                 *)
(***************************************************************************)
EXTENDS Integers, Sequences, FiniteSets, TLC

\* ---------------------------------------------------------------- bounds
\* most inputs in a list passed to jacobian
MaxIn == 2
\* most outputs in a list returned by func
MaxOut == 2
\* most scalar entries over all outputs of func
MaxEntries == 3
\* most scalar entries over all inputs
MaxInEntries == 3
\* most unreachable gradients the engine reports during one call
MaxUnreach == 1
\* successive jacobian calls with the same arguments
MaxCalls == 2
\* largest entry of the 2x2 matrix x of the matmul example
MaxX == 1

\* ---------------------------------------------------------- Python values
None == [py |-> "None"]
PyInt == [py |-> "int"]
Unset == [py |-> "unset"]
Tensor(shape, data) == [py |-> "Tensor", shape |-> shape, data |-> data]
PyList(items) == [py |-> "list", items |-> items]
IsTensor(v) == v.py = "Tensor"
IsList(v) == v.py = "list"

RECURSIVE SumSeq(_)
SumSeq(s) == IF s = <<>> THEN 0 ELSE Head(s) + SumSeq(Tail(s))

RECURSIVE Flatten(_)
Flatten(ss) == IF ss = <<>> THEN <<>> ELSE Head(ss) \o Flatten(Tail(ss))

\* paddle.ones(shape=[n]): the 1-D tensors the inputs and outputs are drawn from
Ones(n) == Tensor(<<n>>, [c \in 1..n |-> 1])

\* number of scalar entries of a tensor
Numel(t) == Len(t.data)

\* paddle.reshape(t, shape=[-1]): the 1-D tensor of the same row-major data
Reshape(t) == Tensor(<<Len(t.data)>>, t.data)

\* paddle.stack(rows, axis=0) of tensors of one shape: a new leading axis
Stack(rows) == Tensor(<<Len(rows)>> \o rows[1].shape, Flatten([r \in 1..Len(rows) |-> rows[r].data]))

\* ------------------------------------------------------- _check_tensors
\* faulty variant: the emptiness assertion of line 23 is missing
Check_tensorsNoEmptyCheck(in_out_list, name) ==
    IF in_out_list = None
    THEN [ok |-> FALSE, msg |-> name \o " should not be None", val |-> <<>>]
    ELSE IF IsList(in_out_list)
    THEN IF \E e \in 1..Len(in_out_list.items) : ~IsTensor(in_out_list.items[e])
         THEN [ok |-> FALSE, msg |-> "Elements of " \o name \o " must be paddle.Tensor", val |-> <<>>]
         ELSE [ok |-> TRUE, msg |-> "", val |-> in_out_list.items]
    ELSE IF ~IsTensor(in_out_list)
    THEN [ok |-> FALSE, msg |-> name \o " must be Tensor or list of Tensor", val |-> <<>>]
    ELSE [ok |-> TRUE, msg |-> "", val |-> <<in_out_list>>]

_check_tensors(in_out_list, name) ==
    IF in_out_list = None
    THEN [ok |-> FALSE, msg |-> name \o " should not be None", val |-> <<>>]
    ELSE IF IsList(in_out_list)
    THEN IF Len(in_out_list.items) = 0
         THEN [ok |-> FALSE, msg |-> name \o " connot be empyt", val |-> <<>>]
         ELSE IF \E e \in 1..Len(in_out_list.items) : ~IsTensor(in_out_list.items[e])
         THEN [ok |-> FALSE, msg |-> "Elements of " \o name \o " must be paddle.Tensor", val |-> <<>>]
         ELSE [ok |-> TRUE, msg |-> "", val |-> in_out_list.items]
    ELSE IF ~IsTensor(in_out_list)
    THEN [ok |-> FALSE, msg |-> name \o " must be Tensor or list of Tensor", val |-> <<>>]
    ELSE [ok |-> TRUE, msg |-> "", val |-> <<in_out_list>>]

\* ------------------------------------------- _stack_tensor_or_return_none
\* status "ok" with the value returned, "AssertionError" for the empty list,
\* "StackError" when paddle.stack is handed a list holding a None;
\* stacked tells whether paddle.stack was called.
\* faulty variant: the rows are stacked last to first
Stack_tensor_reversed(origin_list) ==
    IF Len(origin_list) = 0
    THEN [status |-> "AssertionError", msg |-> "Can't not stack an empty list", value |-> Unset, stacked |-> FALSE]
    ELSE IF IsTensor(origin_list[1])
    THEN IF \E r \in 1..Len(origin_list) : ~IsTensor(origin_list[r])
         THEN [status |-> "StackError", msg |-> "paddle.stack", value |-> Unset, stacked |-> TRUE]
         ELSE [status |-> "ok", msg |-> "", stacked |-> TRUE,
               value |-> Stack([r \in 1..Len(origin_list) |-> origin_list[Len(origin_list) + 1 - r]])]
    ELSE [status |-> "ok", msg |-> "", value |-> None, stacked |-> FALSE]

\* faulty variant: the assertion of line 38 is missing and an empty list stacks to an empty tensor
Stack_tensor_no_assert(origin_list) ==
    IF Len(origin_list) = 0
    THEN [status |-> "ok", msg |-> "", value |-> Tensor(<<0>>, <<>>), stacked |-> TRUE]
    ELSE IF IsTensor(origin_list[1])
    THEN IF \E r \in 1..Len(origin_list) : ~IsTensor(origin_list[r])
         THEN [status |-> "StackError", msg |-> "paddle.stack", value |-> Unset, stacked |-> TRUE]
         ELSE [status |-> "ok", msg |-> "", value |-> Stack(origin_list), stacked |-> TRUE]
    ELSE [status |-> "ok", msg |-> "", value |-> None, stacked |-> FALSE]

_stack_tensor_or_return_none(origin_list) ==
    IF Len(origin_list) = 0
    THEN [status |-> "AssertionError", msg |-> "Can't not stack an empty list", value |-> Unset, stacked |-> FALSE]
    ELSE IF IsTensor(origin_list[1])
    THEN IF \E r \in 1..Len(origin_list) : ~IsTensor(origin_list[r])
         THEN [status |-> "StackError", msg |-> "paddle.stack", value |-> Unset, stacked |-> TRUE]
         ELSE [status |-> "ok", msg |-> "", value |-> Stack(origin_list), stacked |-> TRUE]
    ELSE [status |-> "ok", msg |-> "", value |-> None, stacked |-> FALSE]

\* ------------------------------------------------------ result collapsing
\* the tuple a Python expression builds is a "list" value here
\* faulty variant: the nested tuple is returned whatever p and q
CollapseNever(jac, fin_size, fout_size) ==
    PyList([o \in 1..Len(jac) |-> PyList(jac[o])])

Collapse(jac, fin_size, fout_size) ==
    IF fin_size = 1 /\ fout_size = 1 THEN jac[1][1]
    ELSE IF fin_size = 1 /\ fout_size # 1 THEN PyList([o \in 1..fout_size |-> jac[o][1]])
    ELSE IF fin_size # 1 /\ fout_size = 1 THEN PyList(jac[1])
    ELSE PyList([o \in 1..Len(jac) |-> PyList(jac[o])])

\* ------------------------------------------------- func and the engine
\* The functions differentiated: "linear", an opaque func whose outputs are
\* linear in the inputs with pairwise distinct coefficients, and "matmul",
\* func(x) = paddle.matmul(x, x) of the docstring's first example.
Row2(idx) == ((idx - 1) \div 2) + 1
Col2(idx) == ((idx - 1) % 2) + 1
At2(data, r, c) == data[(r - 1) * 2 + c]

MatMul(x, y) == Tensor(<<2, 2>>, [idx \in 1..4 |-> At2(x.data, Row2(idx), 1) * At2(y.data, 1, Col2(idx)) + At2(x.data, Row2(idx), 2) * At2(y.data, 2, Col2(idx))])

\* d func(inputs)[o][k] / d inputs[j][c], entries counted in row-major order
Partial(f, inp, o, k, j, c) ==
    IF f = "matmul"
    THEN (IF Row2(k) = Row2(c) THEN At2(inp[1].data, Col2(c), Col2(k)) ELSE 0)
         + (IF Col2(k) = Col2(c) THEN At2(inp[1].data, Row2(k), Row2(c)) ELSE 0)
    ELSE ((o * 10 + k) * 10 + j) * 10 + c

\* paddle.grad(flat_output[k] of output o, inputs, allow_unused=True) when the
\* inputs in U are unreachable: one gradient, shaped like its input, per input
EngineGrad(f, inp, o, k, U) == [j \in 1..Len(inp) |-> IF j \in U THEN None ELSE Tensor(inp[j].shape, [c \in 1..Numel(inp[j]) |-> Partial(f, inp, o, k, j, c)])]

\* the sets of unreachable inputs the engine may report for one scalar
Unreachables(f, q) == IF f = "matmul" THEN {{}} ELSE SUBSET (1..q)

TotalNumel(items) == SumSeq([e \in 1..Len(items) |-> IF IsTensor(items[e]) THEN Numel(items[e]) ELSE 0])
SeqsUpTo(S, n) == UNION {[1..m -> S] : m \in 0..n}

\* what the caller may pass as inputs
InputArgs == {None, PyInt} \cup {Ones(n) : n \in 1..MaxInEntries} \cup {PyList(l) : l \in {s \in SeqsUpTo({Ones(n) : n \in 1..MaxInEntries} \cup {PyInt}, MaxIn) : TotalNumel(s) <= MaxInEntries}}

\* what func(*inputs) may return
FuncOutputs(f, inp) ==
    IF f = "matmul" THEN {MatMul(inp[1], inp[1])}
    ELSE {None, PyInt} \cup {Ones(m) : m \in 0..MaxEntries} \cup {PyList(l) : l \in {s \in SeqsUpTo({Ones(m) : m \in 0..MaxEntries} \cup {PyInt}, MaxOut) : TotalNumel(s) <= MaxEntries}}

\* ------------------------------------------------------------------ state
VARIABLES func, inputs, create_graph, allow_unused, fret, answers, pc, callNo, inputsL, outputs, flat_outputs, i, k, jac_i, jacobian, calls, funcCalls, stackCalls, result, history, dynamic_shape, precision, progIdx, genPos, yielded

argVars == <<func, inputs, create_graph, allow_unused>>
localVars == <<inputsL, outputs, flat_outputs, i, k, jac_i, jacobian>>
jacVars == <<func, inputs, create_graph, allow_unused, fret, answers, pc, callNo, inputsL, outputs, flat_outputs, i, k, jac_i, jacobian, calls, funcCalls, stackCalls, result, history>>
trtVars == <<dynamic_shape, precision, progIdx, genPos, yielded>>
vars == <<jacVars, trtVars>>

\* ----------------------------------------------------------- jacobian
\* line 161: jacobian = tuple()
\* faulty variant: the tuple of an earlier call is kept
StaleJacobian == jacobian
EmptyJacobian == <<>>

\* line 163: jac_i = list([] for _ in range(fin_size))
NewJacI(fin_size) == [j \in 1..fin_size |-> <<>>]

\* lines 165-170: what one paddle.grad call is asked
\* faulty variant: retain_graph is left to follow create_graph
GradRequestNoRetain(o, idx) == [out |-> o, entry |-> idx, wrt |-> inputsL, create_graph |-> create_graph, retain_graph |-> create_graph, allow_unused |-> allow_unused]
\* faulty variant: allow_unused is always on
GradRequestAlwaysAllow(o, idx) == [out |-> o, entry |-> idx, wrt |-> inputsL, create_graph |-> create_graph, retain_graph |-> TRUE, allow_unused |-> TRUE]
GradRequest(o, idx) == [out |-> o, entry |-> idx, wrt |-> inputsL, create_graph |-> create_graph, retain_graph |-> TRUE, allow_unused |-> allow_unused]

\* lines 172-175: the entry appended to jac_i[j] for the gradient g = row_k[j]
\* faulty variant: the gradient is appended unflattened
RowEntryNoReshape(g) == IF IsTensor(g) THEN g ELSE None
RowEntry(g) == IF IsTensor(g) THEN Reshape(g) ELSE None

\* the call ends: an exception leaves the frame, or a value is returned
Finish(status, msg, value) ==
    /\ pc' = "done"
    /\ result' = [status |-> status, msg |-> msg, value |-> value]
    /\ history' = Append(history, [status |-> status, msg |-> msg, value |-> value])

\* the engine's answer to its n-th request of a call: chosen by the engine
\* on the first call, the same again on the later ones
EngineAnswers(n, q) ==
    IF callNo = 1
    THEN {U \in Unreachables(func, q) : Cardinality(answers) + Cardinality(U) <= MaxUnreach}
    ELSE {{j \in 1..q : <<n, j>> \in answers}}

\* lines 154-161: the arguments are checked, func is called, its value checked
Call ==
    /\ pc \in {"idle", "done"}
    /\ callNo < MaxCalls
    /\ callNo' = callNo + 1
    /\ calls' = <<>>
    /\ stackCalls' = {}
    /\ UNCHANGED <<argVars, answers, trtVars>>
    /\ LET chk == _check_tensors(inputs, "inputs") IN
       IF ~chk.ok
       THEN /\ Finish("AssertionError", chk.msg, Unset)
            /\ funcCalls' = 0
            /\ UNCHANGED <<fret, localVars>>
       ELSE \E ret \in (IF callNo = 0 THEN FuncOutputs(func, chk.val) ELSE {fret}) :
            LET out == _check_tensors(ret, "outputs") IN
            /\ fret' = ret
            /\ funcCalls' = 1
            /\ inputsL' = chk.val
            /\ IF ~out.ok
               THEN /\ Finish("AssertionError", out.msg, Unset)
                    /\ UNCHANGED <<outputs, flat_outputs, i, k, jac_i, jacobian>>
               ELSE /\ outputs' = out.val
                    /\ flat_outputs' = [o \in 1..Len(out.val) |-> Reshape(out.val[o])]
                    /\ jacobian' = EmptyJacobian
                    /\ i' = 1
                    /\ k' = 1
                    /\ jac_i' = NewJacI(Len(chk.val))
                    /\ pc' = "loop"
                    /\ UNCHANGED <<result, history>>

\* lines 164-175: one pass of the inner loop, one paddle.grad call
Grad ==
    /\ pc = "loop"
    /\ i <= Len(flat_outputs)
    /\ k <= Numel(flat_outputs[i])
    /\ UNCHANGED <<argVars, fret, callNo, inputsL, outputs, flat_outputs, i, jacobian, funcCalls, stackCalls, trtVars>>
    /\ \E U \in EngineAnswers(Len(calls) + 1, Len(inputsL)) :
       LET req == GradRequest(i, k) IN
       /\ calls' = Append(calls, req)
       /\ answers' = answers \cup {<<Len(calls) + 1, j>> : j \in U}
       /\ IF U # {} /\ ~req.allow_unused
          THEN /\ Finish("EngineError", "unreachable input", Unset)
               /\ UNCHANGED <<k, jac_i>>
          ELSE LET row_k == EngineGrad(func, req.wrt, req.out, req.entry, U) IN
               /\ jac_i' = [j \in 1..Len(inputsL) |-> Append(jac_i[j], RowEntry(row_k[j]))]
               /\ k' = k + 1
               /\ UNCHANGED <<pc, result, history>>

\* lines 176-177 and 162-163: the rows of output i are stacked, input by
\* input, until one raises; then the outer loop moves on
StackOutput ==
    /\ pc = "loop"
    /\ i <= Len(flat_outputs)
    /\ k > Numel(flat_outputs[i])
    /\ UNCHANGED <<argVars, fret, answers, callNo, inputsL, outputs, flat_outputs, calls, funcCalls, trtVars>>
    /\ LET fin_size == Len(inputsL)
           res == [j \in 1..fin_size |-> _stack_tensor_or_return_none(jac_i[j])]
           bad == {j \in 1..fin_size : res[j].status # "ok"}
           stop == IF bad = {} THEN fin_size ELSE CHOOSE j \in bad : \A j2 \in bad : j <= j2
       IN /\ stackCalls' = stackCalls \cup {[out |-> i, inp |-> j, rows |-> jac_i[j]] : j \in {j2 \in 1..stop : res[j2].stacked}}
          /\ IF bad # {}
             THEN /\ Finish(res[stop].status, res[stop].msg, Unset)
                  /\ UNCHANGED <<i, k, jac_i, jacobian>>
             ELSE /\ jacobian' = Append(jacobian, [j \in 1..fin_size |-> res[j].value])
                  /\ i' = i + 1
                  /\ k' = 1
                  /\ jac_i' = IF i + 1 <= Len(flat_outputs) THEN NewJacI(fin_size) ELSE jac_i
                  /\ UNCHANGED <<pc, result, history>>

\* lines 178-185
Return ==
    /\ pc = "loop"
    /\ i > Len(flat_outputs)
    /\ Finish("ok", "", Collapse(jacobian, Len(inputsL), Len(outputs)))
    /\ UNCHANGED <<argVars, fret, answers, callNo, localVars, calls, funcCalls, stackCalls, trtVars>>

\* ------------------------------------- TrtConvertLeakyReluTest (the test)
\* A dict is the set of its <<key, value>> pairs.
NumAlpha == 5
NumXScale == 5
Alphas == <<"0.02", "1.0", "100.0", "-1.0", "0.0">>
XScales == <<"1.0", "100.0", "0.01", "-0.1", "0.0">>

\* the n-th program config sample_program_configs yields, alpha outermost
sample_program_configs(n) ==
    [ops |-> <<[op_type |-> "leaky_relu",
                attrs |-> [alpha |-> Alphas[((n - 1) \div NumXScale) + 1], use_mkldnn |-> TRUE,
                           enable_int8 |-> TRUE, X_scale |-> XScales[((n - 1) % NumXScale) + 1]]]>>,
     inputs |-> {"input_data"}, outputs |-> <<"y_data">>]

EmptyShape == [min_input_shape |-> {}, max_input_shape |-> {}, opt_input_shape |-> {}]
\* faulty variant: the shape maps are not cleared
keep_dynamic_shape == dynamic_shape
clear_dynamic_shape == EmptyShape
generate_dynamic_shape(attrs) ==
    [min_input_shape |-> {<<"input_data", <<1, 3, 32, 32>>>>},
     max_input_shape |-> {<<"input_data", <<4, 3, 64, 64>>>>},
     opt_input_shape |-> {<<"input_data", <<4, 3, 64, 64>>>>}]
generate_trt_nodes_num(attrs, dyn) == <<1, 2>>

\* self.create_inference_config(): built from the test object's state
create_inference_config(prec, shapes) == [precision |-> prec, dynamic_shape |-> shapes]

Tol1 == [py |-> "float", items |-> <<"1e-5">>]
Tol2 == [py |-> "tuple", items |-> <<"1e-5", "1e-5">>]

\* lines 79-82
Attrs(program_config) == [o \in 1..Len(program_config.ops) |-> program_config.ops[o].attrs]

\* the generator runs from position pos to its next yield
YieldConfig(pos, prec, shapes, dyn, tol) ==
    /\ genPos = pos
    /\ dynamic_shape' = shapes
    /\ precision' = prec
    /\ yielded' = Append(yielded, [config |-> create_inference_config(prec, shapes),
                                   nodes |-> generate_trt_nodes_num(Attrs(sample_program_configs(progIdx)), dyn),
                                   tol |-> tol])
    /\ genPos' = pos + 1
    /\ UNCHANGED <<progIdx, jacVars>>

\* run_test takes the next program config and makes its generator
NextProgram ==
    /\ genPos \in {0, 7}
    /\ progIdx < NumAlpha * NumXScale
    /\ progIdx' = progIdx + 1
    /\ genPos' = 1
    /\ yielded' = <<>>
    /\ UNCHANGED <<dynamic_shape, precision, jacVars>>

\* lines 85-88
StaticFloat32 == YieldConfig(1, "Float32", clear_dynamic_shape, FALSE, Tol1)
\* lines 89-91
StaticHalf == YieldConfig(2, "Half", dynamic_shape, FALSE, Tol2)
\* lines 92-94
StaticInt8 == YieldConfig(3, "Int8", dynamic_shape, FALSE, Tol2)
\* lines 97-100
DynamicFloat32 == YieldConfig(4, "Float32", generate_dynamic_shape(Attrs(sample_program_configs(progIdx))), TRUE, Tol1)
\* lines 101-103
DynamicHalf == YieldConfig(5, "Half", dynamic_shape, TRUE, Tol2)
\* lines 104-106
DynamicInt8 == YieldConfig(6, "Int8", dynamic_shape, TRUE, Tol2)

JacInit ==
    /\ fret = Unset
    /\ answers = {}
    /\ pc = "idle"
    /\ callNo = 0
    /\ inputsL = <<>>
    /\ outputs = <<>>
    /\ flat_outputs = <<>>
    /\ i = 0
    /\ k = 0
    /\ jac_i = <<>>
    /\ jacobian = <<>>
    /\ calls = <<>>
    /\ funcCalls = 0
    /\ stackCalls = {}
    /\ result = [status |-> "none", msg |-> "", value |-> Unset]
    /\ history = <<>>

TrtIdle ==
    /\ dynamic_shape = EmptyShape
    /\ precision = "Float32"
    /\ progIdx = 0
    /\ genPos = 0
    /\ yielded = <<>>

Init ==
    /\ func = "linear"
    /\ inputs \in InputArgs
    /\ create_graph \in BOOLEAN
    /\ allow_unused \in BOOLEAN
    /\ JacInit
    /\ TrtIdle

InitMatmul ==
    /\ func = "matmul"
    /\ inputs \in {Tensor(<<2, 2>>, d) : d \in [1..4 -> 0..MaxX]}
    /\ create_graph \in BOOLEAN
    /\ allow_unused \in BOOLEAN
    /\ JacInit
    /\ TrtIdle

Next == Call \/ Grad \/ StackOutput \/ Return

Spec == Init /\ [][Next]_vars
SpecMatmul == InitMatmul /\ [][Next]_vars

InitTrt ==
    /\ func = "linear"
    /\ inputs = None
    /\ create_graph = FALSE
    /\ allow_unused = FALSE
    /\ JacInit
    /\ TrtIdle

NextTrt == NextProgram \/ StaticFloat32 \/ StaticHalf \/ StaticInt8 \/ DynamicFloat32 \/ DynamicHalf \/ DynamicInt8

SpecTrt == InitTrt /\ [][NextTrt]_vars

\* ------------------------------------------------ vocabulary of the claims
\* the tensors of an argument: a bare tensor counts as a sequence of one
ArgItems(v) == IF IsList(v) THEN v.items ELSE <<v>>
\* q, the number of inputs, and p, the number of outputs of func
NumIn == Len(ArgItems(inputs))
NumOut == Len(ArgItems(fret))
\* n_j and m_o
InNumel(j) == Numel(ArgItems(inputs)[j])
OutNumel(o) == Numel(ArgItems(fret)[o])
ValidArg(v) == /\ v.py \in {"Tensor", "list"}
               /\ IsList(v) => (Len(v.items) > 0 /\ \A e \in 1..Len(v.items) : IsTensor(v.items[e]))
Started == callNo >= 1
ValidCall == Started /\ ValidArg(inputs) /\ ValidArg(fret)
Returned == pc = "done" /\ result.status = "ok"
\* the engine request that differentiates scalar entry kk of output o
RequestNo(o, kk) == SumSeq([o2 \in 1..(o - 1) |-> OutNumel(o2)]) + kk
\* the block of output o with respect to input j in the value returned
ResultBlock(o, j) ==
    IF NumOut = 1 /\ NumIn = 1 THEN result.value
    ELSE IF NumIn = 1 THEN result.value.items[o]
    ELSE IF NumOut = 1 THEN result.value.items[j]
    ELSE result.value.items[o].items[j]
\* the flattened gradient of scalar entry kk of output o with respect to input j
GradientRow(o, kk, j) == [c \in 1..InNumel(j) |-> Partial(func, ArgItems(inputs), o, kk, j, c)]
\* the m_o x n_j matrix whose row kk is GradientRow(o, kk, j)
JacobianMatrix(o, j) == Tensor(<<OutNumel(o), InNumel(j)>>, Flatten([kk \in 1..OutNumel(o) |-> GradientRow(o, kk, j)]))
\* the engine reported input j unreachable from every / from no entry of output o
PairUnreachable(o, j) == \A kk \in 1..OutNumel(o) : <<RequestNo(o, kk), j>> \in answers
PairReachable(o, j) == \A kk \in 1..OutNumel(o) : <<RequestNo(o, kk), j>> \notin answers
Pairs == (1..NumOut) \X (1..NumIn)

\* ------------------------------------------------------------------ claims

C2_BlockRows ==
    (Returned /\ answers = {}) => \A pr \in Pairs : ResultBlock(pr[1], pr[2]) = JacobianMatrix(pr[1], pr[2])
C2_Witness == Returned /\ answers = {} /\ NumOut = 2 /\ NumIn = 2 /\ OutNumel(1) = 2 /\ InNumel(2) = 2

\* C3: the engine is asked once per scalar entry of every flattened output, in
\* the order output 0 entries 0.., output 1, ...; each request names one
\* scalar and the whole input sequence, with graph retention on and the
\* caller's create_graph and allow_unused.
ExpectedRequests == Flatten([o \in 1..NumOut |-> [kk \in 1..OutNumel(o) |-> [out |-> o, entry |-> kk, wrt |-> ArgItems(inputs), create_graph |-> create_graph, retain_graph |-> TRUE, allow_unused |-> allow_unused]]])
C3_EngineRequests ==
    /\ (ValidCall /\ pc = "loop") => (Len(calls) <= Len(ExpectedRequests) /\ calls = SubSeq(ExpectedRequests, 1, Len(calls)))
    /\ Returned => (calls = ExpectedRequests /\ Len(calls) = SumSeq([o \in 1..NumOut |-> OutNumel(o)]))
C3_Witness == Returned /\ NumOut = 2 /\ NumIn = 2 /\ Len(calls) = 3 /\ create_graph /\ allow_unused

\* C4: an input unreachable from an output: with allow_unused the call
\* succeeds, that slot holds None and the slots of reachable pairs hold their
\* matrices; without it the engine error ends the call with no Jacobian, and
\* the failing request is the last one made.
C4_Unreachable ==
    /\ (Returned /\ allow_unused) =>
          \A pr \in Pairs : /\ PairUnreachable(pr[1], pr[2]) => ResultBlock(pr[1], pr[2]) = None
                            /\ PairReachable(pr[1], pr[2]) => ResultBlock(pr[1], pr[2]) = JacobianMatrix(pr[1], pr[2])
    /\ (ValidCall /\ pc = "done" /\ allow_unused /\ (\A o \in 1..NumOut : OutNumel(o) >= 1)
          /\ (\A pr \in Pairs : PairUnreachable(pr[1], pr[2]) \/ PairReachable(pr[1], pr[2])))
       => result.status = "ok"
    /\ (ValidCall /\ pc = "done" /\ ~allow_unused /\ answers # {}) =>
          /\ result.status = "EngineError"
          /\ result.value = Unset
          /\ \A a \in answers : a[1] = Len(calls)
C4_Witness ==
    /\ Returned /\ allow_unused /\ NumOut = 2 /\ NumIn = 2 /\ OutNumel(1) = 2
    /\ PairUnreachable(2, 2) /\ ResultBlock(2, 2) = None
    /\ PairReachable(1, 1) /\ PairReachable(1, 2) /\ PairReachable(2, 1)

\* C5: with allow_unused, for any pattern of answers of the engine, a block is
\* absent exactly if all its rows were unreachable and is else the stack of
\* its rows: no block is absent while one of its rows is a gradient, and
\* paddle.stack is never handed a list that holds None.
C5_AbsentOnlyIfAllUnreachable ==
    /\ \A s \in stackCalls : \A r \in 1..Len(s.rows) : IsTensor(s.rows[r])
    /\ (Returned /\ allow_unused) =>
          \A pr \in Pairs : ResultBlock(pr[1], pr[2]) = (IF PairUnreachable(pr[1], pr[2]) THEN None ELSE JacobianMatrix(pr[1], pr[2]))

\* C6: inputs, or the value func returns, that is None, an empty list, a list
\* holding a non-tensor, or neither tensor nor list ends the call with the
\* validation error and no engine request; when inputs are the invalid ones,
\* func is not called.
C6_Validation ==
    /\ (Started /\ ~ValidArg(inputs)) =>
          (pc = "done" /\ result.status = "AssertionError" /\ result.value = Unset /\ calls = <<>> /\ funcCalls = 0)
    /\ (Started /\ ValidArg(inputs) /\ ~ValidArg(fret)) =>
          (pc = "done" /\ result.status = "AssertionError" /\ result.value = Unset /\ calls = <<>>)
C6_Witness == Started /\ ValidArg(inputs) /\ fret = PyList(<<>>) /\ pc = "done"

\* C7: for func(x) = matmul(x, x) at the 2x2 all-ones x the call returns the
\* single 4x4 matrix [[2,1,1,0],[1,2,0,1],[1,0,2,1],[0,1,1,2]], rows and
\* columns in row-major order of the output and input entries.
C7_MatmulExample ==
    (pc = "done" /\ func = "matmul" /\ inputs = Tensor(<<2, 2>>, <<1, 1, 1, 1>>)) =>
       /\ result.status = "ok"
       /\ result.value = Tensor(<<4, 4>>, <<2, 1, 1, 0,  1, 2, 0, 1,  1, 0, 2, 1,  0, 1, 1, 2>>)
C7_Witness == Returned /\ func = "matmul" /\ inputs = Tensor(<<2, 2>>, <<1, 1, 1, 1>>) /\ Len(calls) = 4

\* C8: for every program config, one after another on the same test object,
\* six configs are yielded: static Float32, Half, Int8 made with empty
\* min/max/opt shape maps, then dynamic Float32, Half, Int8 made with the
\* input_data shapes; each is made with the precision of its position and
\* each yield expects the node counts (1, 2).
PrecisionOrder == <<"Float32", "Half", "Int8", "Float32", "Half", "Int8">>
C8_PredictorConfigs ==
    /\ Len(yielded) <= 6
    /\ genPos >= 1 => Len(yielded) = genPos - 1
    /\ \A n \in 1..Len(yielded) :
          /\ yielded[n].config.precision = PrecisionOrder[n]
          /\ yielded[n].nodes = <<1, 2>>
          /\ n <= 3 => yielded[n].config.dynamic_shape = [min_input_shape |-> {}, max_input_shape |-> {}, opt_input_shape |-> {}]
          /\ n > 3 => yielded[n].config.dynamic_shape =
                         [min_input_shape |-> {<<"input_data", <<1, 3, 32, 32>>>>},
                          max_input_shape |-> {<<"input_data", <<4, 3, 64, 64>>>>},
                          opt_input_shape |-> {<<"input_data", <<4, 3, 64, 64>>>>}]
C8_Witness == progIdx = 3 /\ genPos = 7 /\ Len(yielded) = 6

C10_EmptyOutput ==
    /\ Returned => \A o \in 1..NumOut : OutNumel(o) >= 1
    /\ ValidCall => \A c \in 1..Len(calls) : OutNumel(calls[c].out) >= 1
    /\ (ValidCall /\ i <= NumOut /\ OutNumel(i) = 0) =>
          /\ \A j \in 1..NumIn : jac_i[j] = <<>>
          /\ pc = "done" => (result.status = "AssertionError" /\ result.msg = "Can't not stack an empty list" /\ result.value = Unset)
C10_Witness == ValidCall /\ pc = "done" /\ NumOut = 2 /\ i = 2 /\ OutNumel(2) = 0 /\ OutNumel(1) = 2 /\ result.status = "AssertionError"

====
